---- MODULE Spec2Model ----
(***************************************************************************)
(* Model of generator.mjs: the slide-deck pipeline.  main() either loads   *)
(* the checkpoint slides.json or generates a deck through the text model,  *)
(* filters the valid slides, ensures the images directory and runs one     *)
(* generateImageWithRetry task per valid slide concurrently, joined by     *)
(* Promise.all.  Each await of the source is one step of the model.        *)
(***************************************************************************)
EXTENDS Integers, Sequences, FiniteSets, TLC

\* ------------------------------------------------------------------------
\* Program constants
MAX_IMAGE_RETRIES == 3
INITIAL_IMAGE_RETRY_DELAY_MS == 1000
EXPECTED_SLIDES_COUNT == 10

\* Bounds of the model
MaxDeck == 2
MaxProse == 1
MaxEntity == 3

\* ------------------------------------------------------------------------
\* Strings are sequences of characters; two characters are enough to tell
\* an empty string, a whitespace-only string and a string with content apart.
SP == " "
CH == "a"
EmptyStr == <<>>
BlankStr == <<SP>>
TextStr == <<CH>>
PaddedStr == <<SP, CH>>

RECURSIVE TrimLeft(_)
TrimLeft(s) == IF s = <<>> THEN s
               ELSE IF Head(s) = SP THEN TrimLeft(Tail(s)) ELSE s

RECURSIVE TrimRight(_)
TrimRight(s) == IF s = <<>> THEN s
                ELSE IF s[Len(s)] = SP THEN TrimRight(SubSeq(s, 1, Len(s) - 1)) ELSE s

\* xml2js option trim: true, and String.prototype.trim
Trim(s) == TrimRight(TrimLeft(s))

\* String.prototype.indexOf and lastIndexOf: 0-based, -1 when absent
Occurrences(s, pat) ==
    {i \in 0..(Len(s) - Len(pat)) : SubSeq(s, i + 1, i + Len(pat)) = pat}
IndexOf(s, pat) ==
    IF Occurrences(s, pat) = {} THEN -1
    ELSE CHOOSE i \in Occurrences(s, pat) : \A j \in Occurrences(s, pat) : i <= j
LastIndexOf(s, pat) ==
    IF Occurrences(s, pat) = {} THEN -1
    ELSE CHOOSE i \in Occurrences(s, pat) : \A j \in Occurrences(s, pat) : i >= j

\* String.prototype.substring(a, b): the arguments are swapped when a > b
Substring(s, a, b) ==
    IF a <= b THEN SubSeq(s, a + 1, b) ELSE SubSeq(s, b + 1, a)

OpenTag == <<"<", "s", "l", "i", "d", "e", "s", ">">>
CloseTag == <<"<", "/", "s", "l", "i", "d", "e", "s", ">">>

\* Variant: the length of the closing tag is not added to the end index
ExtractWithoutClose(content) ==
    IF IndexOf(content, OpenTag) = -1 \/ LastIndexOf(content, CloseTag) = -1
    THEN IF IndexOf(content, <<"<">>) # -1 /\ LastIndexOf(content, <<">">>) # -1
         THEN [ok |-> TRUE,
               val |-> Substring(content, IndexOf(content, <<"<">>),
                                 LastIndexOf(content, <<">">>) + 1)]
         ELSE [ok |-> FALSE, val |-> <<>>]
    ELSE [ok |-> TRUE,
          val |-> Substring(content, IndexOf(content, OpenTag),
                            LastIndexOf(content, CloseTag))]

\* lines 114-128: from the first <slides> to the last </slides>, else from
\* the first < to the last >, else an error
Extract(content) ==
    IF IndexOf(content, OpenTag) = -1 \/ LastIndexOf(content, CloseTag) = -1
    THEN IF IndexOf(content, <<"<">>) # -1 /\ LastIndexOf(content, <<">">>) # -1
         THEN [ok |-> TRUE,
               val |-> Substring(content, IndexOf(content, <<"<">>),
                                 LastIndexOf(content, <<">">>) + 1)]
         ELSE [ok |-> FALSE, val |-> <<>>]
    ELSE [ok |-> TRUE,
          val |-> Substring(content, IndexOf(content, OpenTag),
                            LastIndexOf(content, CloseTag) + Len(CloseTag))]

\* The regular expression of line 136:
\* /&(?!amp;|lt;|gt;|quot;|apos;|#[0-9]+;|#x[0-9a-fA-F]+;)/g
Amp == <<"a", "m", "p", ";">>
Lt == <<"l", "t", ";">>
Gt == <<"g", "t", ";">>
Quot == <<"q", "u", "o", "t", ";">>
Apos == <<"a", "p", "o", "s", ";">>
EntityNames == {Amp, Lt, Gt, Quot, Apos}
Digits == {"0", "1", "2", "3", "4", "5", "6", "7", "8", "9"}
HexDigits == Digits \cup {"a", "b", "c", "d", "e", "f", "A", "B", "C", "D", "E", "F"}

StartsAt(s, j, pat) ==
    /\ j + Len(pat) - 1 <= Len(s)
    /\ SubSeq(s, j, j + Len(pat) - 1) = pat

\* class+; at position j: one or more characters of the class, then ;
RunThenSemicolon(s, j, class) ==
    \E n \in 1..Len(s) :
       /\ j + n <= Len(s)
       /\ \A k \in 0..(n - 1) : s[j + k] \in class
       /\ s[j + n] = ";"

\* Variant: amp; is missing from the alternatives
LookaheadWithoutAmp(s, j) ==
    \/ \E name \in EntityNames \ {Amp} : StartsAt(s, j, name)
    \/ StartsAt(s, j, <<"#">>) /\ RunThenSemicolon(s, j + 1, Digits)
    \/ StartsAt(s, j, <<"#", "x">>) /\ RunThenSemicolon(s, j + 2, HexDigits)

\* the lookahead: one of the alternatives matches at position j
Lookahead(s, j) ==
    \/ \E name \in EntityNames : StartsAt(s, j, name)
    \/ StartsAt(s, j, <<"#">>) /\ RunThenSemicolon(s, j + 1, Digits)
    \/ StartsAt(s, j, <<"#", "x">>) /\ RunThenSemicolon(s, j + 2, HexDigits)

\* .replace(regex, '&amp;') from position i on
RECURSIVE ReplaceFrom(_, _)
ReplaceFrom(s, i) ==
    IF i > Len(s) THEN <<>>
    ELSE (IF s[i] = "&" /\ ~Lookahead(s, i + 1) THEN <<"&">> \o Amp ELSE <<s[i]>>)
         \o ReplaceFrom(s, i + 1)

Repair(s) == ReplaceFrom(s, 1)

\* A JavaScript object is a function from its own keys to values; an absent
\* key is undefined.
Fields == {"title", "text", "imagedescription"}
NoProps == [k \in {} |-> EmptyStr]

\* JavaScript truthiness of obj[k]: undefined, "" and 0 are falsy.  The
\* three text fields hold strings, slideNumber holds a number.
Truthy(obj, k) == /\ k \in DOMAIN obj
                  /\ IF k = "slideNumber" THEN obj[k] # 0 ELSE obj[k] # EmptyStr

\* !!(slide.title && slide.text && slide.imagedescription)
isValidExpr(slide) == /\ Truthy(slide, "title")
                      /\ Truthy(slide, "text")
                      /\ Truthy(slide, "imagedescription")

\* { ...slide, slideNumber: n, isValid: v }
SpreadRecord(obj, n, v) ==
    [k \in DOMAIN obj \cup {"slideNumber", "isValid"} |->
        IF k = "slideNumber" THEN n
        ELSE IF k = "isValid" THEN v
        ELSE obj[k]]

\* ------------------------------------------------------------------------
\* Inputs: slide elements of the XML document, elements of the checkpoint
GoodSlide == [f \in Fields |-> TextStr]
WithoutField(k) == [f \in Fields \ {k} |-> TextStr]
WithField(k, v) == [GoodSlide EXCEPT ![k] = v]
WithNumber(obj, n) == [k \in DOMAIN obj \cup {"slideNumber"} |->
                          IF k = "slideNumber" THEN n ELSE obj[k]]

\* <slide> elements as written by the text model (children by tag name,
\* raw text content)
XmlSlides == {GoodSlide, WithField("title", PaddedStr), NoProps}
             \cup {WithoutField(k) : k \in Fields}
             \cup {WithField(k, EmptyStr) : k \in Fields}
             \cup {WithField(k, BlankStr) : k \in Fields}

\* Values of the JSON array in slides.json (possibly edited by hand)
JsonNull == [kind |-> "null", props |-> NoProps]
JsonNumber == [kind |-> "number", props |-> NoProps]
JsonObject(obj) == [kind |-> "object", props |-> obj]
JsonElems == {JsonNull, JsonNumber, JsonObject(NoProps), JsonObject(GoodSlide),
              JsonObject(WithField("text", BlankStr)),
              JsonObject(WithNumber(GoodSlide, 2)),
              JsonObject(WithNumber(WithoutField("title"), 0))}
             \cup {JsonObject(WithoutField(k)) : k \in Fields}
             \cup {JsonObject(WithField(k, EmptyStr)) : k \in Fields}

SeqsUpTo(S, n) == UNION {[1..m -> S] : m \in 0..n}

\* The elements that differ from the plain slide and still give an image
\* task; a deck of the model holds at most one of them.
EditedSlides == {JsonObject(WithField("text", BlankStr)),
                 JsonObject(WithNumber(GoodSlide, 2))}
StoreDecks == {e \in SeqsUpTo(JsonElems, MaxDeck) :
                 \A i, j \in 1..Len(e) :
                    (e[i] \in EditedSlides /\ e[j] \in EditedSlides) => i = j}

NoFile == [kind |-> "absent", elems |-> <<>>]
TruncatedFile == [kind |-> "unparsable", elems |-> <<>>]
StoreContents == {TruncatedFile,
                  [kind |-> "nonarray", elems |-> <<>>]}
                 \cup {[kind |-> "array", elems |-> e] : e \in StoreDecks}

\* Responses of the text-generation service
TextFailures == {"apiError", "empty", "noXml", "badXml", "noSlides"}
TextResponses == {[kind |-> k, slides |-> <<>>] : k \in TextFailures}
                 \cup {[kind |-> "slides", slides |-> s] :
                         s \in SeqsUpTo(XmlSlides, MaxDeck) \ {<<>>}}

\* ------------------------------------------------------------------------
VARIABLES
    pc,                 \* position of main()
    exitCode,           \* -1 while the process runs, then its exit code
    slidesJsonExists,   \* slides.json is present
    slidesJsonContent,  \* its content
    researchExists,     \* research.txt is present
    imagesDirExists,    \* images/ is present
    slides,             \* main's variable slides
    tasks,              \* one generateImageWithRetry call per valid slide
    summary,            \* the figures of the final report
    textCalls,          \* calls of client.chat.completions.create
    jsonWrites,         \* writeFile calls on slides.json
    mkdirCalls,         \* mkdir calls on images/
    storeAtStart,       \* slides.json as the run found it
    textResult,         \* kind of the text service's response
    storeWriteResult,   \* outcome of writeFile on slides.json
    mkdirResult,        \* outcome of mkdir
    gpc,                \* position inside generateSlidesFromResearch
    response,           \* content of the text model's message
    xmlContent,         \* the local variable xmlContent
    xmlDoc,             \* what parseStringPromise makes of the cleaned XML
    genResult           \* slidesData, or the error thrown

vars == <<pc, exitCode, slidesJsonExists, slidesJsonContent, researchExists,
          imagesDirExists, slides, tasks, summary, textCalls, jsonWrites,
          mkdirCalls, storeAtStart, textResult, storeWriteResult, mkdirResult,
          gpc, response, xmlContent, xmlDoc, genResult>>

files == <<slidesJsonExists, slidesJsonContent, researchExists, imagesDirExists>>
history == <<storeAtStart, textResult, storeWriteResult, mkdirResult>>
counters == <<textCalls, jsonWrites, mkdirCalls>>
gen == <<gpc, response, xmlContent, xmlDoc, genResult>>
main == <<pc, exitCode, files, slides, tasks, summary, counters, history>>

Running == -1
NoSummary == [total |-> 0, succeeded |-> 0, failed |-> 0]
NoDoc == [kind |-> "none", slides |-> <<>>]
NoResult == [kind |-> "pending", error |-> "none", deck |-> <<>>]

Init ==
    /\ pc = "start"
    /\ exitCode = Running
    /\ slidesJsonExists \in BOOLEAN
    /\ slidesJsonContent \in (IF slidesJsonExists THEN StoreContents ELSE {NoFile})
    \* research.txt is looked for only when slides.json is absent
    /\ researchExists \in (IF slidesJsonExists THEN {TRUE} ELSE BOOLEAN)
    /\ imagesDirExists \in BOOLEAN
    /\ slides = <<>>
    /\ tasks = <<>>
    /\ summary = NoSummary
    /\ textCalls = 0
    /\ jsonWrites = 0
    /\ mkdirCalls = 0
    /\ storeAtStart = [exists |-> slidesJsonExists, content |-> slidesJsonContent]
    /\ textResult = "none"
    /\ storeWriteResult = "none"
    /\ mkdirResult = "none"
    /\ gpc = "off"
    /\ response = <<>>
    /\ xmlContent = <<>>
    /\ xmlDoc = NoDoc
    /\ genResult = NoResult

\* process.exit(code)
Exit(code) == /\ pc' = "exited"
              /\ exitCode' = code

\* ------------------------------------------------------------------------
\* main, lines 223-247: load the checkpoint or generate the deck

\* Variant: the checkpoint is not looked for
MainStartAlwaysGenerate ==
    /\ pc = "start"
    /\ pc' = "checkResearch"
    /\ UNCHANGED <<exitCode, files, slides, tasks, summary, counters, history, gen>>

\* if (await fileExists(slidesJsonPath))
MainStart ==
    /\ pc = "start"
    /\ pc' = IF slidesJsonExists THEN "load" ELSE "checkResearch"
    /\ UNCHANGED <<exitCode, files, slides, tasks, summary, counters, history, gen>>

\* Variant: the check of the length is missing
LoadThrowsUnlessEmpty(content) ==
    \/ content.kind # "array"
    \/ \E i \in 1..Len(content.elems) : content.elems[i].kind = "null"

\* JSON.parse throws, the value is not an array or is empty, or the map
\* callback reads a property of null
LoadThrows(content) ==
    \/ content.kind # "array"
    \/ Len(content.elems) = 0
    \/ \E i \in 1..Len(content.elems) : content.elems[i].kind = "null"

\* (s, i) => ({ ...s, slideNumber: s.slideNumber || i + 1, isValid: ... })
LoadRecord(s, i) ==
    SpreadRecord(s.props,
                 IF Truthy(s.props, "slideNumber") THEN s.props["slideNumber"] ELSE i,
                 isValidExpr(s.props))

LoadDeck(content) == [i \in 1..Len(content.elems) |-> LoadRecord(content.elems[i], i)]

MainLoad ==
    /\ pc = "load"
    /\ IF LoadThrows(slidesJsonContent)
       THEN Exit(1) /\ UNCHANGED slides
       ELSE /\ slides' = LoadDeck(slidesJsonContent)
            /\ pc' = "filter"
            /\ UNCHANGED exitCode
    /\ UNCHANGED <<files, tasks, summary, counters, history, gen>>

\* if (!(await fileExists(researchPath))) process.exit(1); otherwise the
\* research text is read and the text model is called
MainCheckResearch ==
    /\ pc = "checkResearch"
    /\ IF ~researchExists
       THEN Exit(1) /\ UNCHANGED textCalls
       ELSE /\ pc' = "awaitText"
            /\ textCalls' = textCalls + 1
            /\ UNCHANGED exitCode
    /\ UNCHANGED <<files, slides, tasks, summary, jsonWrites, mkdirCalls, history, gen>>

\* xml2js with trim: true: the text of every child is trimmed
ParseSlide(xmlSlide) == [k \in DOMAIN xmlSlide |-> Trim(xmlSlide[k])]

\* Variant: the number is the 0-based index
ParseRecordZeroBased(slide, index) ==
    SpreadRecord(slide, index - 1, isValidExpr(slide))

\* slidesArray.map((slide, index) => ...), lines 156-162
ParseRecord(slide, index) == SpreadRecord(slide, index, isValidExpr(slide))

slidesData(xmlSlides) ==
    [i \in 1..Len(xmlSlides) |-> ParseRecord(ParseSlide(xmlSlides[i]), i)]

\* JSON.stringify(slidesData) followed by JSON.parse gives the same objects
StoredDeck(deck) == [kind |-> "array",
                     elems |-> [i \in 1..Len(deck) |-> JsonObject(deck[i])]]

\* xml2js with explicitArray: false gives '' for an element without
\* content, the element itself for a single child and an array for several:
\* !parsedResult.slides || !parsedResult.slides.slide (line 146) holds for a
\* root without slide elements and for a single slide element without content
StructureThrows(xmlSlides) ==
    \/ xmlSlides = <<>>
    \/ Len(xmlSlides) = 1 /\ DOMAIN xmlSlides[1] = {}

\* the error generateSlidesFromResearch throws for a response, or "none"
GenerationError(resp) ==
    IF resp.kind # "slides" THEN resp.kind
    ELSE IF StructureThrows(resp.slides) THEN "emptySlide"
    ELSE "none"

GenerationErrors == TextFailures \cup {"emptySlide"}

\* Variant: the catch stores an empty deck before it rethrows
GenerationFailsStoringEmpty ==
    /\ Exit(1)
    /\ slidesJsonExists' = TRUE
    /\ slidesJsonContent' = [kind |-> "array", elems |-> <<>>]
    /\ UNCHANGED <<slides, jsonWrites, storeWriteResult>>

\* the catch of generateSlidesFromResearch rethrows and main's catch ends the
\* process: nothing was written
GenerationFails ==
    /\ Exit(1)
    /\ UNCHANGED <<slides, jsonWrites, slidesJsonExists, slidesJsonContent,
                   storeWriteResult>>

\* generateSlidesFromResearch from the response on, and main's catch
MainTextResponse ==
    /\ pc = "awaitText"
    /\ \E resp \in TextResponses :
         /\ textResult' = (IF GenerationError(resp) = "none" THEN "slides"
                           ELSE GenerationError(resp))
         /\ IF GenerationError(resp) # "none"
            THEN GenerationFails
            ELSE /\ jsonWrites' = jsonWrites + 1
                 /\ \E w \in {"ok", "failed", "failedPartial"} :
                      /\ storeWriteResult' = w
                      /\ CASE w = "ok" ->
                                /\ slidesJsonExists' = TRUE
                                /\ slidesJsonContent' = StoredDeck(slidesData(resp.slides))
                                /\ slides' = slidesData(resp.slides)
                                /\ pc' = "filter"
                                /\ UNCHANGED exitCode
                           [] w = "failed" ->
                                /\ Exit(1)
                                /\ UNCHANGED <<slides, slidesJsonExists, slidesJsonContent>>
                           [] w = "failedPartial" ->
                                /\ Exit(1)
                                /\ slidesJsonExists' = TRUE
                                /\ slidesJsonContent' = TruncatedFile
                                /\ UNCHANGED slides
    /\ UNCHANGED <<researchExists, imagesDirExists, tasks, summary, textCalls,
                   mkdirCalls, storeAtStart, mkdirResult, gen>>

\* ------------------------------------------------------------------------
\* main, lines 249-261: filter the valid slides, ensure the directory

\* Variant: the filter keeps every record
SelectAll(deck) == deck

RECURSIVE SelectValid(_)
SelectValid(deck) ==
    IF deck = <<>> THEN <<>>
    ELSE IF Head(deck)["isValid"] THEN <<Head(deck)>> \o SelectValid(Tail(deck))
         ELSE SelectValid(Tail(deck))

\* slides.filter(s => s.isValid)
validSlides == SelectValid(slides)

\* Variant: a deck without valid slides ends the run with code 1
MainFilterExitOne ==
    /\ pc = "filter"
    /\ IF Len(validSlides) = 0
       THEN Exit(1)
       ELSE pc' = "ensureDir" /\ UNCHANGED exitCode
    /\ UNCHANGED <<files, slides, tasks, summary, counters, history, gen>>

\* Variant: a deck without valid slides does not end the run
MainFilterNoExit ==
    /\ pc = "filter"
    /\ pc' = "ensureDir"
    /\ UNCHANGED <<exitCode, files, slides, tasks, summary, counters, history, gen>>

\* if (!validSlides.length) process.exit(0)
MainFilter ==
    /\ pc = "filter"
    /\ IF Len(validSlides) = 0
       THEN Exit(0)
       ELSE pc' = "ensureDir" /\ UNCHANGED exitCode
    /\ UNCHANGED <<files, slides, tasks, summary, counters, history, gen>>

\* if (!(await fileExists(imagesPath))) await mkdir(imagesPath); a rejected
\* mkdir rejects main and reaches main().catch: process.exit(1)
MainEnsureDir ==
    /\ pc = "ensureDir"
    /\ IF imagesDirExists
       THEN /\ pc' = "dispatch"
            /\ UNCHANGED <<exitCode, imagesDirExists, mkdirCalls, mkdirResult>>
       ELSE /\ mkdirCalls' = mkdirCalls + 1
            /\ \E ok \in BOOLEAN :
                 IF ok
                 THEN /\ imagesDirExists' = TRUE
                      /\ mkdirResult' = "ok"
                      /\ pc' = "dispatch"
                      /\ UNCHANGED exitCode
                 ELSE /\ mkdirResult' = "failed"
                      /\ Exit(1)
                      /\ UNCHANGED imagesDirExists
    /\ UNCHANGED <<slidesJsonExists, slidesJsonContent, researchExists, slides,
                   tasks, summary, textCalls, jsonWrites, storeAtStart, textResult,
                   storeWriteResult, gen>>

\* ------------------------------------------------------------------------
\* generateImageWithRetry, lines 176-214

\* path.join(__dirname, IMAGES_DIR, `slide_${slideNumber}_image.png`)
imagePath(slideNumber) == <<"images", "slide_", slideNumber, "_image.png">>

\* Variant: the first request is sent after a timer instead of at once
NewTaskDeferred(slide) ==
    [slideNumber  |-> slide["slideNumber"],
     imagePath    |-> imagePath(slide["slideNumber"]),
     pc           |-> "waiting",
     retries      |-> 0,
     calls        |-> 0,
     delays       |-> <<>>,
     writeStarted |-> FALSE,
     file         |-> "none",
     outcome      |-> "pending"]

\* The call up to its first await: retries = 0 and the first request to
\* client.images.generate is in flight.
NewTask(slide) ==
    [slideNumber  |-> slide["slideNumber"],
     imagePath    |-> imagePath(slide["slideNumber"]),
     pc           |-> "calling",
     retries      |-> 0,
     calls        |-> 1,
     delays       |-> <<>>,
     writeStarted |-> FALSE,
     file         |-> "none",
     outcome      |-> "pending"]

\* Variant: the exponent is retries instead of retries - 1
waitTimeDoubled(retries) == INITIAL_IMAGE_RETRY_DELAY_MS * 2 ^ retries

\* INITIAL_IMAGE_RETRY_DELAY_MS * Math.pow(2, retries - 1)
waitTime(retries) == INITIAL_IMAGE_RETRY_DELAY_MS * 2 ^ (retries - 1)

\* Variant: one more attempt is permitted
CatchOneMore(task) ==
    LET retries == task.retries + 1 IN
    IF retries > MAX_IMAGE_RETRIES + 1
    THEN [task EXCEPT !.retries = retries, !.pc = "exhausted", !.outcome = "failure"]
    ELSE [task EXCEPT !.retries = retries, !.pc = "waiting",
                      !.delays = Append(task.delays, waitTime(retries))]

\* the catch block: count the failure, give up after the last permitted
\* attempt, otherwise start the backoff timer
Catch(task) ==
    LET retries == task.retries + 1 IN
    IF retries > MAX_IMAGE_RETRIES
    THEN [task EXCEPT !.retries = retries, !.pc = "exhausted", !.outcome = "failure"]
    ELSE [task EXCEPT !.retries = retries, !.pc = "waiting",
                      !.delays = Append(task.delays, waitTime(retries))]

\* the response of client.images.generate: a rejection, a response without
\* b64_json, or a payload, which is handed to writeFile
OnImageResponse(task, resp) ==
    IF resp = "payload"
    THEN [task EXCEPT !.pc = "writing", !.writeStarted = TRUE]
    ELSE Catch(task)

\* the end of writeFile(imagePath, ...): the file is complete, or the write
\* was rejected before the file was opened, or after part of it was written
OnWriteDone(task, result) ==
    CASE result = "ok" ->
           [task EXCEPT !.file = "full", !.pc = "success", !.outcome = "success"]
      [] result = "failedUnopened" -> Catch(task)
      [] result = "failedPartial" -> Catch([task EXCEPT !.file = "partial"])

\* Variant: the timer's promise is never resolved
OnTimerStuck(task) == task

\* the end of the backoff timer: the loop condition holds and the next
\* request is sent
OnTimer(task) == [task EXCEPT !.pc = "calling", !.calls = task.calls + 1]

ImageResponses == {"apiError", "noPayload", "payload"}
WriteResults == {"ok", "failedUnopened", "failedPartial"}

TaskUnchanged == UNCHANGED <<pc, exitCode, files, slides, summary, counters, history, gen>>

ImageResponse(t) ==
    /\ tasks[t].pc = "calling"
    /\ \E resp \in ImageResponses :
         tasks' = [tasks EXCEPT ![t] = OnImageResponse(tasks[t], resp)]
    /\ TaskUnchanged

WriteDone(t) ==
    /\ tasks[t].pc = "writing"
    /\ \E result \in WriteResults :
         tasks' = [tasks EXCEPT ![t] = OnWriteDone(tasks[t], result)]
    /\ TaskUnchanged

TimerFires(t) ==
    /\ tasks[t].pc = "waiting"
    /\ tasks' = [tasks EXCEPT ![t] = OnTimer(tasks[t])]
    /\ TaskUnchanged

\* ------------------------------------------------------------------------
\* main, lines 265-279: fan out, join, summary

\* validSlides.map(slide => generateImageWithRetry(...))
imagePromises(valid) == [i \in 1..Len(valid) |-> NewTask(valid[i])]

MainDispatch ==
    /\ pc = "dispatch"
    /\ tasks' = imagePromises(validSlides)
    /\ pc' = "join"
    /\ UNCHANGED <<exitCode, files, slides, summary, counters, history, gen>>

Settled(task) == task.pc \in {"success", "exhausted"}

\* results.filter(r => r?.success).length
successfulImages(results) ==
    Cardinality({i \in 1..Len(results) : results[i].outcome = "success"})

Summary(valid, results) ==
    [total     |-> Len(valid),
     succeeded |-> successfulImages(results),
     failed    |-> Len(valid) - successfulImages(results)]

\* Variant: an exhausted task rejects, Promise.all rejects with it and
\* main().catch ends the process
MainJoinFailFast ==
    /\ pc = "join"
    /\ IF \E t \in 1..Len(tasks) : tasks[t].pc = "exhausted"
       THEN Exit(1) /\ UNCHANGED summary
       ELSE /\ \A t \in 1..Len(tasks) : Settled(tasks[t])
            /\ summary' = Summary(validSlides, tasks)
            /\ Exit(0)
    /\ UNCHANGED <<files, slides, tasks, counters, history, gen>>

\* await Promise.all(imagePromises), the report, and the end of the process
MainJoin ==
    /\ pc = "join"
    /\ \A t \in 1..Len(tasks) : Settled(tasks[t])
    /\ summary' = Summary(validSlides, tasks)
    /\ Exit(0)
    /\ UNCHANGED <<files, slides, tasks, counters, history, gen>>

Next ==
    \/ MainStart
    \/ MainLoad
    \/ MainCheckResearch
    \/ MainTextResponse
    \/ MainFilter
    \/ MainEnsureDir
    \/ MainDispatch
    \/ MainJoin
    \/ \E t \in 1..Len(tasks) : ImageResponse(t)
    \/ \E t \in 1..Len(tasks) : WriteDone(t)
    \/ \E t \in 1..Len(tasks) : TimerFires(t)

Spec == Init /\ [][Next]_vars

\* Every await of main and of every task eventually completes: the event
\* loop runs a continuation that is ready.
MainStep ==
    \/ MainStart
    \/ MainLoad
    \/ MainCheckResearch
    \/ MainTextResponse
    \/ MainFilter
    \/ MainEnsureDir
    \/ MainDispatch
    \/ MainJoin

TaskStep(t) ==
    /\ t \in 1..Len(tasks)
    /\ (ImageResponse(t) \/ WriteDone(t) \/ TimerFires(t))

Fairness ==
    /\ WF_vars(MainStep)
    /\ \A t \in 1..MaxDeck : WF_vars(TaskStep(t))

\* The runs checked for termination: the images directory is absent, and a
\* slides.json that exists holds plain slides and empty objects.
LiveInit ==
    /\ Init
    /\ ~imagesDirExists
    /\ slidesJsonExists =>
          /\ slidesJsonContent.kind = "array"
          /\ \A i \in 1..Len(slidesJsonContent.elems) :
                slidesJsonContent.elems[i] \in {JsonObject(GoodSlide), JsonObject(NoProps)}

FairSpec == LiveInit /\ [][Next]_vars /\ Fairness

\* ------------------------------------------------------------------------
\* generateSlidesFromResearch, lines 107-162, step by step on the text of
\* one response

RECURSIVE Concat(_)
Concat(chunks) == IF chunks = <<>> THEN <<>>
                  ELSE Head(chunks) \o Concat(Tail(chunks))

\* commentary around the XML: text, whitespace, angle brackets, root tags
ProseChunks == {<<"x">>, <<SP>>, <<"<">>, <<">">>, OpenTag, CloseTag}
Prose == {Concat(c) : c \in SeqsUpTo(ProseChunks, MaxProse)}
PlainFragment == OpenTag \o <<"x">> \o CloseTag
ProseResponses == {p \o f \o q : p \in Prose, q \in Prose, f \in {<<>>, PlainFragment}}

\* content with ampersands, entities and pieces of entities
EntityChunks == EntityNames \cup {<<"&">>, <<"#">>, <<"x">>, <<"1">>, <<"f">>, <<";">>, <<"g">>}
EntityResponses == {OpenTag \o Concat(c) \o CloseTag :
                      c \in SeqsUpTo(EntityChunks, MaxEntity)}

\* results of parseStringPromise
XmlDocs == {r \in TextResponses : r.kind \in {"badXml", "noSlides", "slides"}}
OneSlideDoc == [kind |-> "slides", slides |-> <<GoodSlide>>]

GenInputs ==
    {[response |-> r, doc |-> OneSlideDoc] : r \in ProseResponses \cup EntityResponses}
    \cup {[response |-> PlainFragment, doc |-> d] : d \in XmlDocs}

GenInit ==
    /\ pc = "awaitText"
    /\ exitCode = Running
    /\ slidesJsonExists = FALSE
    /\ slidesJsonContent = NoFile
    /\ researchExists = TRUE
    /\ imagesDirExists = FALSE
    /\ slides = <<>>
    /\ tasks = <<>>
    /\ summary = NoSummary
    /\ textCalls = 1
    /\ jsonWrites = 0
    /\ mkdirCalls = 0
    /\ storeAtStart = [exists |-> FALSE, content |-> NoFile]
    /\ textResult = "none"
    /\ storeWriteResult = "none"
    /\ mkdirResult = "none"
    /\ gpc = "response"
    /\ \E in \in GenInputs : response = in.response /\ xmlDoc = in.doc
    /\ xmlContent = <<>>
    /\ genResult = NoResult

\* throw new Error(...)
GenThrow(err) ==
    /\ gpc' = "failed"
    /\ genResult' = [kind |-> "error", error |-> err, deck |-> <<>>]

\* lines 107-108: the content is trimmed; an empty content is an error
GenReceive ==
    /\ gpc = "response"
    /\ xmlContent' = Trim(response)
    /\ IF Trim(response) = <<>>
       THEN GenThrow("empty")
       ELSE gpc' = "received" /\ UNCHANGED genResult
    /\ UNCHANGED <<main, response, xmlDoc>>

\* lines 114-128
GenExtract ==
    /\ gpc = "received"
    /\ IF Extract(xmlContent).ok
       THEN /\ xmlContent' = Extract(xmlContent).val
            /\ gpc' = "extracted"
            /\ UNCHANGED genResult
       ELSE GenThrow("noXml") /\ UNCHANGED xmlContent
    /\ UNCHANGED <<main, response, xmlDoc>>

\* lines 135-136
GenRepair ==
    /\ gpc = "extracted"
    /\ xmlContent' = Repair(xmlContent)
    /\ gpc' = "cleaned"
    /\ UNCHANGED <<main, response, xmlDoc, genResult>>

\* lines 142-162: parseStringPromise, the structure check, the map
GenParse ==
    /\ gpc = "cleaned"
    /\ IF GenerationError(xmlDoc) # "none"
       THEN GenThrow(GenerationError(xmlDoc))
       ELSE /\ gpc' = "parsed"
            /\ genResult' = [kind |-> "deck", error |-> "none",
                             deck |-> slidesData(xmlDoc.slides)]
    /\ UNCHANGED <<main, response, xmlContent, xmlDoc>>

GenNext ==
    \/ GenReceive
    \/ GenExtract
    \/ GenRepair
    \/ GenParse

GenSpec == GenInit /\ [][GenNext]_vars

TypeOK ==
    /\ exitCode \in {Running, 0, 1}
    /\ Len(tasks) <= MaxDeck

\* ------------------------------------------------------------------------
\* Properties

TaskIds == 1..Len(tasks)
Loaded == Len(slides) > 0
ValidPositions == {i \in 1..Len(slides) : slides[i]["isValid"]}
\* the position in the deck of the n-th valid record
NthValid(n) == CHOOSE i \in ValidPositions :
                  Cardinality({j \in ValidPositions : j <= i}) = n

\* C1: a task whose every attempt failed in the image service (a rejected
\* call or a response without b64_json, never a payload) made exactly 4
\* calls, waited 1000, 2000 and 4000 ms between them and nothing after the
\* 4th failure, returned a failure and wrote no file.
C1_RetryTiming ==
    \A t \in TaskIds :
       (tasks[t].pc = "exhausted" /\ ~tasks[t].writeStarted) =>
          /\ tasks[t].calls = 4
          /\ tasks[t].delays = <<1000, 2000, 4000>>
          /\ tasks[t].outcome = "failure"
          /\ tasks[t].file = "none"

C1_Witness ==
    \E t \in TaskIds : tasks[t].pc = "exhausted" /\ ~tasks[t].writeStarted

\* C2: a task has touched its file only after a response with a payload,
\* and a task whose outcome is a failure has left no file, complete or
\* partial, also when the failing step was the write itself.
C2_NoFileOnFailure ==
    \A t \in TaskIds :
       /\ tasks[t].file # "none" => tasks[t].writeStarted
       /\ tasks[t].outcome = "failure" => tasks[t].file = "none"

\* C3: main starts exactly one task per valid record, in deck order, and
\* none for an invalid one; after the join the summary has total = number
\* of valid slides, succeeded = number of tasks that succeeded and
\* failed = total - succeeded.
C3_FanOutAndSummary ==
    /\ pc \in {"start", "load", "checkResearch", "awaitText", "filter",
               "ensureDir", "dispatch"} => tasks = <<>>
    /\ pc = "join" \/ tasks # <<>> =>
          /\ Len(tasks) = Cardinality(ValidPositions)
          /\ \A t \in TaskIds :
                tasks[t].slideNumber = slides[NthValid(t)]["slideNumber"]
    /\ (pc = "exited" /\ tasks # <<>>) =>
          /\ summary.total = Cardinality(ValidPositions)
          /\ summary.succeeded =
                Cardinality({t \in TaskIds : tasks[t].outcome = "success"})
          /\ summary.failed = summary.total - summary.succeeded
          /\ summary.failed =
                Cardinality({t \in TaskIds : tasks[t].outcome = "failure"})

C3_Witness ==
    /\ pc = "exited"
    /\ \E i \in 1..Len(slides) : ~slides[i]["isValid"]
    /\ \E t \in TaskIds : tasks[t].outcome = "failure"
    /\ summary.total = 1

\* C4: the tasks are isolated.  A step changes at most one task and never
\* a settled one; a task returns a failure only after its own 4 calls and
\* a success only after its own complete write; once tasks are started the
\* run ends only through the join, with every task settled and exit code 0.
C4_StepIsolated ==
    Len(tasks') = Len(tasks) =>
       \A t \in TaskIds :
          /\ Settled(tasks[t]) => tasks'[t] = tasks[t]
          /\ tasks'[t] # tasks[t] =>
                \A u \in TaskIds \ {t} : tasks'[u] = tasks[u]

C4_OwnOutcome ==
    /\ \A t \in TaskIds :
          /\ tasks[t].outcome = "failure" <=> tasks[t].pc = "exhausted"
          /\ tasks[t].outcome = "success" <=> tasks[t].pc = "success"
          /\ tasks[t].pc = "exhausted" =>
                tasks[t].retries = 4 /\ tasks[t].calls = 4
          /\ tasks[t].pc = "success" =>
                tasks[t].file = "full" /\ tasks[t].calls = tasks[t].retries + 1
    /\ (tasks # <<>> /\ pc = "exited") =>
          /\ exitCode = 0
          /\ \A t \in TaskIds : Settled(tasks[t])

C4_Isolation == []C4_OwnOutcome /\ [][C4_StepIsolated]_vars

C4_Witness ==
    /\ pc = "exited"
    /\ \E t, u \in TaskIds : tasks[t].pc = "exhausted" /\ tasks[u].pc = "success"

\* C5: two distinct tasks of a run never target the same file path.
C5_DistinctPaths ==
    \A t, u \in TaskIds : t # u => tasks[t].imagePath # tasks[u].imagePath

NotSlideRecord(e) == e.kind # "object" \/ DOMAIN e.props \cap Fields = {}
C7_NonSlideElementsFatal ==
    (/\ storeAtStart.exists
     /\ pc = "exited"
     /\ \/ storeAtStart.content.kind # "array"
        \/ Len(storeAtStart.content.elems) = 0
        \/ \E i \in 1..Len(storeAtStart.content.elems) :
              NotSlideRecord(storeAtStart.content.elems[i]))
    => exitCode = 1

\* C7 amended: a slides.json that is unparsable, not an array, an empty
\* array or an array with a null element ends the run with exit code 1,
\* no call of the text service, the file untouched and no task; every
\* other array is loaded, one record per element.
C7_Rejected(content) ==
    \/ content.kind \in {"unparsable", "nonarray"}
    \/ content.elems = <<>>
    \/ JsonNull \in {content.elems[i] : i \in 1..Len(content.elems)}

C7_CorruptStoreFatal ==
    (storeAtStart.exists /\ pc \notin {"start", "load"}) =>
       IF C7_Rejected(storeAtStart.content)
       THEN /\ pc = "exited"
            /\ exitCode = 1
            /\ textCalls = 0
            /\ slidesJsonContent = storeAtStart.content
            /\ slides = <<>>
            /\ tasks = <<>>
       ELSE /\ Len(slides) = Len(storeAtStart.content.elems)
            /\ Len(slides) >= 1

C7_Witness ==
    /\ storeAtStart.exists
    /\ pc = "exited"
    /\ storeAtStart.content.kind = "array"
    /\ Len(storeAtStart.content.elems) = 2
    /\ storeAtStart.content.elems[2] = JsonNull

\* C8: the process ends with code 1 exactly when research.txt is missing
\* and there is no checkpoint, the checkpoint is rejected by the load, the
\* generation of the deck fails, or main rejects (mkdir); every other run,
\* with failed image tasks or without valid slides, ends with code 0.
C8_Fatal ==
    \/ ~storeAtStart.exists /\ ~researchExists
    \/ storeAtStart.exists /\ C7_Rejected(storeAtStart.content)
    \/ textResult \in GenerationErrors
    \/ storeWriteResult \in {"failed", "failedPartial"}
    \/ mkdirResult = "failed"

C9_NoValidNoWork ==
    (Loaded /\ ValidPositions = {}) =>
       /\ pc \in {"filter", "exited"}
       /\ pc = "exited" => exitCode = 0
       /\ tasks = <<>>
       /\ mkdirCalls = 0
       /\ mkdirResult = "none"

C9_Witness ==
    /\ Len(slides) = 2
    /\ ValidPositions = {}
    /\ pc = "exited"

\* C10: on both paths a record is valid exactly when title, text and
\* imageDescription are all present and non-empty after trimming, and the
\* invalid records stay in the deck.
NonEmptyTrimmed(obj, k) == k \in DOMAIN obj /\ Trim(obj[k]) # EmptyStr
C10_ValidIffTrimmedNonEmpty ==
    /\ \A i \in 1..Len(slides) :
          slides[i]["isValid"] <=> \A k \in Fields : NonEmptyTrimmed(slides[i], k)
    /\ (storeAtStart.exists /\ Loaded) =>
          Len(slides) = Len(storeAtStart.content.elems)

\* C11: in the deck main uses, the record at position i has slideNumber i,
\* whatever number the source held, invalid records included, and the
\* numbers are assigned before any task is started.
C11_PositionalNumbers ==
    /\ \A i \in 1..Len(slides) : slides[i]["slideNumber"] = i
    /\ tasks # <<>> => Loaded

\* C20: when the generation of the deck fails (empty response, no XML
\* found, XML parse error, root without slide elements) slides.json is
\* neither created nor modified, no images directory, task or image file is
\* created and the run ends with code 1, so that the next run generates again.
C20_NoCheckpointOnFailure ==
    textResult \in GenerationErrors =>
       /\ pc = "exited"
       /\ exitCode = 1
       /\ ~slidesJsonExists
       /\ slidesJsonContent = NoFile
       /\ jsonWrites = 0
       /\ mkdirCalls = 0
       /\ mkdirResult = "none"
       /\ slides = <<>>
       /\ tasks = <<>>

C20_Witness ==
    /\ textResult = "noSlides"
    /\ pc = "exited"

\* C16: a task makes at most 4 calls; its failure counter starts at 0,
\* grows by 1 per failed attempt and never exceeds 4; an attempt is followed
\* only by success, by the backoff before the next attempt, or by
\* exhaustion; a settled task does nothing more.
C16_Bounded ==
    \A t \in TaskIds :
       /\ tasks[t].calls <= 4
       /\ tasks[t].retries \in 0..4
       /\ tasks[t].retries = 4 <=> tasks[t].pc = "exhausted"
       /\ Len(tasks[t].delays) <= 3

C16_Transition(a, b) ==
    /\ b.retries \in {a.retries, a.retries + 1}
    /\ b.retries = a.retries + 1 =>
          a.pc \in {"calling", "writing"} /\ b.pc \in {"waiting", "exhausted"}
    /\ a.pc = "calling" => b.pc \in {"calling", "writing", "waiting", "exhausted"}
    /\ a.pc = "writing" => b.pc \in {"writing", "success", "waiting", "exhausted"}
    /\ a.pc = "waiting" => b.pc \in {"waiting", "calling"}
    /\ b.calls = (IF a.pc = "waiting" /\ b.pc = "calling" THEN a.calls + 1 ELSE a.calls)
    /\ b.pc # a.pc /\ b.pc \in {"calling", "writing", "success"} => b.retries = a.retries
    /\ Settled(a) => b = a

C16_Step ==
    /\ (tasks = <<>> /\ tasks' # <<>>) =>
          \A t \in 1..Len(tasks') : tasks'[t].retries = 0
    /\ (tasks # <<>>) =>
          /\ Len(tasks') = Len(tasks)
          /\ \A t \in TaskIds : C16_Transition(tasks[t], tasks'[t])

C16_RetryStateMachine == []C16_Bounded /\ [][C16_Step]_vars

C16_Witness ==
    \E t \in TaskIds : tasks[t].pc = "success" /\ tasks[t].retries = 3

\* C17: the dispatch sends the first request of every valid slide in one
\* step, before any response, timer or completion is handled; from then on
\* main waits at the join only.
C17_Started ==
    /\ \A t \in TaskIds : tasks[t].calls >= 1
    /\ tasks # <<>> => pc \in {"join", "exited"}

C17_DispatchStep ==
    (tasks = <<>> /\ tasks' # <<>>) =>
       /\ pc = "dispatch" /\ pc' = "join"
       /\ Len(tasks') = Cardinality(ValidPositions)
       /\ \A t \in 1..Len(tasks') :
             /\ tasks'[t].pc = "calling"
             /\ tasks'[t].calls = 1
             /\ tasks'[t].retries = 0

C17_FanOut == []C17_Started /\ [][C17_DispatchStep]_vars

C17_Witness ==
    /\ pc = "join"
    /\ Len(tasks) = 2
    /\ \A t \in TaskIds : tasks[t].pc = "calling" /\ tasks[t].calls = 1

\* C19: a second run that loads the slides.json the first run generated
\* and saved gets a deck of the same length with the same slideNumber and
\* isValid at every position, hence tasks for the same slides and the same
\* file paths.
SecondRunDeck == LoadDeck(slidesJsonContent)
TaskPaths(deck) == [i \in 1..Len(SelectValid(deck)) |->
                       imagePath(SelectValid(deck)[i]["slideNumber"])]

C19_RoundTrip ==
    (~storeAtStart.exists /\ storeWriteResult = "ok") =>
       /\ ~LoadThrows(slidesJsonContent)
       /\ Len(SecondRunDeck) = Len(slides)
       /\ \A i \in 1..Len(slides) :
             /\ SecondRunDeck[i]["slideNumber"] = slides[i]["slideNumber"]
             /\ SecondRunDeck[i]["isValid"] = slides[i]["isValid"]
       /\ TaskPaths(SecondRunDeck) = TaskPaths(slides)

C19_Witness ==
    /\ ~storeAtStart.exists
    /\ storeWriteResult = "ok"
    /\ pc = "exited"
    /\ Len(slides) = 2
    /\ Cardinality(ValidPositions) = 1

\* C18: when every call of the image service, every write and every timer
\* completes, every started task reaches success or exhaustion, the join
\* completes and the summary is produced.
C18_Done ==
    /\ pc = "exited"
    /\ exitCode = 0
    /\ \A t \in TaskIds : Settled(tasks[t])
    /\ summary.total = Len(tasks)

C18_Termination == (pc = "join") ~> C18_Done

C18_Witness ==
    /\ C18_Done
    /\ Len(tasks) = 2
    /\ \E t \in TaskIds : tasks[t].pc = "exhausted"

\* A well-formed fragment: it opens with <slides>, closes with </slides>
\* and has neither tag in between.
IsFragment(f) ==
    /\ Len(f) >= Len(OpenTag) + Len(CloseTag)
    /\ Occurrences(f, OpenTag) = {0}
    /\ Occurrences(f, CloseTag) = {Len(f) - Len(CloseTag)}

\* the ways to read the response as prefix + F + suffix
Decompositions ==
    {d \in (1..Len(response)) \X (1..Len(response)) :
        d[1] <= d[2] /\ IsFragment(SubSeq(response, d[1], d[2]))}
FragmentOf(d) == SubSeq(response, d[1], d[2])
PrefixOf(d) == SubSeq(response, 1, d[1] - 1)
SuffixOf(d) == SubSeq(response, d[2] + 1, Len(response))

\* the extraction step returned exactly f
ExtractionReturns(f) ==
    /\ gpc = "extracted" => xmlContent = f
    /\ gpc = "failed" => genResult.error \notin {"empty", "noXml"}

\* C12 as stated: whatever the prose around it, the extraction returns
\* exactly the fragment F of a response prefix + F + suffix.
C12_ExtractionAnyProse ==
    \A d \in Decompositions : ExtractionReturns(FragmentOf(d))

\* C12 (amended): when the prefix has no <slides> and the suffix has no
\* </slides>, the extraction returns exactly the fragment F of a response
\* prefix + F + suffix; '<' and '>' in the prose do no harm.
C12_Extraction ==
    \A d \in Decompositions :
        (/\ Occurrences(PrefixOf(d), OpenTag) = {}
         /\ Occurrences(SuffixOf(d), CloseTag) = {})
        => ExtractionReturns(FragmentOf(d))

C12_Witness ==
    /\ gpc = "extracted"
    /\ \E d \in Decompositions :
         /\ Occurrences(PrefixOf(d), <<"<">>) # {}
         /\ Occurrences(PrefixOf(d), OpenTag) = {}
         /\ Occurrences(SuffixOf(d), CloseTag) = {}
         /\ xmlContent = FragmentOf(d)

\* A numeric character reference: #, one or more digits, ; (decimal) or
\* #x, one or more hexadecimal digits, ;
IsDecimalRef(t) ==
    /\ Len(t) >= 3
    /\ t[1] = "#" /\ t[Len(t)] = ";"
    /\ \A k \in 2..(Len(t) - 1) : t[k] \in Digits
IsHexRef(t) ==
    /\ Len(t) >= 4
    /\ t[1] = "#" /\ t[2] = "x" /\ t[Len(t)] = ";"
    /\ \A k \in 3..(Len(t) - 1) : t[k] \in HexDigits

\* the ends e of the recognized entities that the & at position i begins
EntityEnds(s, i) ==
    {e \in (i + 1)..Len(s) :
        /\ s[i] = "&"
        /\ \/ SubSeq(s, i + 1, e) \in EntityNames
           \/ IsDecimalRef(SubSeq(s, i + 1, e))
           \/ IsHexRef(SubSeq(s, i + 1, e))}
BeginsEntity(s, i) == EntityEnds(s, i) # {}
Bare(s) == {i \in 1..Len(s) : s[i] = "&" /\ ~BeginsEntity(s, i)}

\* where the character at position i of the input is in the output: each
\* bare & before it has grown by the four characters amp;
Moved(s, i) == i + 4 * Cardinality({k \in Bare(s) : k < i})

RepairedFrom(in, out) ==
    /\ \A i \in 1..Len(out) : out[i] = "&" => BeginsEntity(out, i)
    /\ Len(out) = Moved(in, Len(in) + 1) - 1
    /\ \A i \in 1..Len(in) :
         /\ out[Moved(in, i)] = in[i]
         /\ i \in Bare(in) =>
               SubSeq(out, Moved(in, i) + 1, Moved(in, i) + 4) = Amp
         /\ \A e \in EntityEnds(in, i) :
               SubSeq(out, Moved(in, i), Moved(in, i) + (e - i)) = SubSeq(in, i, e)
    /\ Repair(out) = out

StructureChecked ==
    /\ xmlDoc.kind \in {"noSlides", "slides"}
    /\ \/ gpc = "parsed"
       \/ gpc = "failed" /\ genResult.error \notin {"empty", "noXml"}

\* C14: parsing fails with a structure error exactly when the root has no
\* slide element; with at least one slide element, even a single empty one
\* and whatever the count, it yields one record per slide element.
C14_StructureErrorIffNoSlide ==
    StructureChecked =>
        /\ genResult.kind = "error" <=> xmlDoc.kind = "noSlides"
        /\ xmlDoc.kind = "slides" =>
              /\ genResult.kind = "deck"
              /\ Len(genResult.deck) = Len(xmlDoc.slides)

\* C15: a root with exactly one slide element yields a deck of exactly one
\* record, the record that slide gets as the first element of a collection
\* of several slides.
C15_ArrayWrapping ==
    (StructureChecked /\ xmlDoc.kind = "slides" /\ Len(xmlDoc.slides) = 1) =>
        /\ genResult.kind = "deck"
        /\ genResult.deck = <<slidesData(<<xmlDoc.slides[1], GoodSlide>>)[1]>>

====
